---- MODULE Spec2Model ----
(***************************************************************************)
(* The local-library catalog controllers (Author, Book, BookInstance) as a *)
(* state machine over the three document collections.                     *)
(*                                                                         *)
(* Strings are sequences of tokens (a token stands for one character, or   *)
(* for one word that the sanitizers treat as a unit); JavaScript values    *)
(* carry their type in the field t.  An ObjectId is one token standing for *)
(* its 24 hexadecimal digits.                                              *)
(***************************************************************************)
EXTENDS Integers, Sequences, FiniteSets, TLC

VARIABLES authors, books, bookinstances, nextId, pending, resp, clients

vars == <<authors, books, bookinstances, nextId, pending, resp, clients>>
store == <<authors, books, bookinstances>>

(***************************************************************************)
(* Bounds                                                                  *)
(***************************************************************************)
\* documents ever constructed for saving
MaxId == 2
\* requests suspended at an await at the same time (SpecRace)
MaxInflight == 2

(***************************************************************************)
(* JavaScript values                                                       *)
(***************************************************************************)
Undefined == [t |-> "undefined"]
Null == [t |-> "null"]
Str(s) == [t |-> "string", s |-> s]
Arr(a) == [t |-> "array", a |-> a]
DateV(d) == [t |-> "date", d |-> d]
Oid(i) == [t |-> "objectid", id |-> i]

Range(s) == {s[i] : i \in DOMAIN s}

\* req.body[f], undefined when the form did not carry the field
Get(body, f) == IF f \in DOMAIN body THEN body[f] ELSE Undefined
Put(body, f, v) == [g \in DOMAIN body \cup {f} |-> IF g = f THEN v ELSE body[g]]

\* express-validator's toString: undefined and null become the empty string
ToStr(v) == IF v.t = "string" THEN v.s ELSE <<>>
\* JavaScript falsiness of the values a form field can hold
Falsy(v) == v.t \in {"undefined", "null"} \/ (v.t = "string" /\ v.s = <<>>)

(***************************************************************************)
(* Sanitizers and validators of the chains                                 *)
(***************************************************************************)
IsSpace(c) == c = " "

RECURSIVE LTrim(_)
LTrim(s) == IF s # <<>> /\ IsSpace(Head(s)) THEN LTrim(Tail(s)) ELSE s

RECURSIVE RTrim(_)
RTrim(s) ==
  IF s # <<>> /\ IsSpace(s[Len(s)]) THEN RTrim(SubSeq(s, 1, Len(s) - 1)) ELSE s

Trim(s) == RTrim(LTrim(s))

EscapeChar(c) ==
  CASE c = "<" -> "&lt;"
    [] c = ">" -> "&gt;"
    [] c = "&" -> "&amp;"
    [] OTHER -> c

Escape(s) == [i \in DOMAIN s |-> EscapeChar(s[i])]

HexDigits ==
  {"0", "1", "2", "3", "4", "5", "6", "7", "8", "9", "a", "b", "c", "d", "e", "f"}
Letters == {"z", "y"}

IsAlphanumeric(s) == s # <<>> /\ \A i \in DOMAIN s : s[i] \in HexDigits \cup Letters

MaxNameLen == 100
IsLength(s, min, max) == Len(s) >= min /\ Len(s) <= max

ISODates == {"2020-01-01"}
IsISO8601(s) == Len(s) = 1 /\ s[1] \in ISODates
\* validator's toDate: a Date when the string parses, else null
ToDate(s) == IF IsISO8601(s) THEN DateV(s[1]) ELSE Null

(***************************************************************************)
(* The validation chains.  A request under validation is [body, errors]:   *)
(* sanitizers write the new value back to req.body, validators add the     *)
(* field to the failures.  All chains of a handler run before its last     *)
(* middleware reads validationResult(req).                                 *)
(***************************************************************************)
Fail(rq, f, bad) == IF bad THEN rq.errors \cup {f} ELSE rq.errors

\* body(f).trim().isLength({min: 1}).escape()
TextField(rq, f) ==
  LET v == Trim(ToStr(Get(rq.body, f)))
  IN  [body |-> Put(rq.body, f, Str(Escape(v))),
       errors |-> Fail(rq, f, Len(v) < 1)]

\* body(f).trim().isLength({min: 1, max: 100}).escape().isAlphanumeric()
NameField(rq, f) ==
  LET v == Trim(ToStr(Get(rq.body, f)))
      e == Escape(v)
  IN  [body |-> Put(rq.body, f, Str(e)),
       errors |-> Fail(rq, f, ~IsLength(v, 1, MaxNameLen) \/ ~IsAlphanumeric(e))]

\* the date rule without optional(): an empty value is checked as well
DateFieldRequired(rq, f) ==
  LET v == Get(rq.body, f)
  IN  [body |-> Put(rq.body, f, ToDate(ToStr(v))),
       errors |-> Fail(rq, f, ~IsISO8601(ToStr(v)))]

\* body(f).optional({values: "falsy"}).isISO8601().toDate()
DateField(rq, f) ==
  LET v == Get(rq.body, f)
  IN  IF Falsy(v)
      THEN rq
      ELSE [body |-> Put(rq.body, f, ToDate(ToStr(v))),
            errors |-> Fail(rq, f, ~IsISO8601(ToStr(v)))]

\* body("status").escape()
StatusField(rq, f) ==
  [body |-> Put(rq.body, f, Str(Escape(ToStr(Get(rq.body, f))))),
   errors |-> rq.errors]

\* body("genre.*").escape(): every element of the list
GenreElements(rq) ==
  LET g == Get(rq.body, "genre")
  IN  IF g.t = "array"
      THEN [body |-> Put(rq.body, "genre",
                         Arr([i \in DOMAIN g.a |-> Str(Escape(ToStr(g.a[i])))])),
            errors |-> rq.errors]
      ELSE rq

\* body(f).trim().isLength({min: 1}) of the delete forms
IdField(rq, f) ==
  LET v == Trim(ToStr(Get(rq.body, f)))
  IN  [body |-> Put(rq.body, f, Str(v)), errors |-> Fail(rq, f, Len(v) < 1)]

\* the coercion that drops a single value
GenreToArrayEmpty(body) ==
  LET g == Get(body, "genre")
  IN  IF g.t = "array" THEN body ELSE Put(body, "genre", Arr(<<>>))

\* the first middleware of the Book forms: genre becomes an array
GenreToArray(body) ==
  LET g == Get(body, "genre")
  IN  IF g.t = "array" THEN body
      ELSE IF g.t = "undefined" THEN Put(body, "genre", Arr(<<>>))
      ELSE Put(body, "genre", Arr(<<g>>))

Received(body) == [body |-> body, errors |-> {}]
\* a check of the failures that never fires
RejectedNever(rq) == FALSE

\* !errors.isEmpty()
Rejected(rq) == rq.errors # {}

AuthorChain(body) ==
  DateField(DateField(NameField(NameField(Received(body), "first_name"),
                                "family_name"), "date_of_birth"), "date_of_death")

BookChain(body) ==
  GenreElements(TextField(TextField(TextField(TextField(
    Received(GenreToArray(body)), "title"), "author"), "summary"), "isbn"))

BookInstanceChain(body) ==
  DateField(StatusField(TextField(TextField(Received(body), "book"), "imprint"),
                        "status"), "due_back")

(***************************************************************************)
(* Documents: the schemas' casts, defaults and validators                  *)
(***************************************************************************)
\* a string of 24 hexadecimal digits, here one hexadecimal token
IsObjectId(s) == Len(s) = 1 /\ s[1] \in HexDigits

\* the paths set from obj whose cast to ObjectId throws
BadObjectId(v) == ~(v.t \in {"undefined", "null"}) /\ ~(v.t = "string" /\ IsObjectId(v.s))
CastObjectId(v) ==
  IF v.t = "string" /\ IsObjectId(v.s) THEN Oid(v.s[1])
  ELSE IF v.t = "null" THEN Null ELSE Undefined

CastString(v) == IF v.t = "string" THEN v ELSE IF v.t = "null" THEN Null ELSE Undefined

\* type Date: the empty string casts to null
CastDate(v) ==
  CASE v.t = "date" -> v
    [] v.t = "string" -> IF v.s = <<>> THEN Null ELSE ToDate(v.s)
    [] v.t = "null" -> Null
    [] OTHER -> Undefined

OrDefault(v, d) == IF v.t = "undefined" THEN d ELSE v

\* required: fails on undefined, null and the empty string
Required(v) == ~(v.t \in {"undefined", "null"}) /\ ~(v.t = "string" /\ v.s = <<>>)

StatusEnum == {<<"Available">>, <<"Maintenance">>, <<"Loaned">>, <<"Reserved">>}
StatusDefault == Str(<<"Maintenance">>)
\* Date.now() taken once, when the schema is defined
DueBackDefault == DateV("schema-load-time")

NewAuthor(obj, id) ==
  [_id |-> id,
   first_name |-> CastString(Get(obj, "first_name")),
   family_name |-> CastString(Get(obj, "family_name")),
   date_of_birth |-> CastDate(Get(obj, "date_of_birth")),
   date_of_death |-> CastDate(Get(obj, "date_of_death")),
   invalid |-> {}]

AuthorValid(doc) ==
  /\ doc.invalid = {}
  /\ Required(doc.first_name) /\ Len(doc.first_name.s) <= MaxNameLen
  /\ Required(doc.family_name) /\ Len(doc.family_name.s) <= MaxNameLen

GenreCastFails(g) == g.t = "array" /\ \E i \in DOMAIN g.a : BadObjectId(g.a[i])
CastGenre(g) ==
  IF g.t = "array" /\ ~GenreCastFails(g)
  THEN Arr([i \in DOMAIN g.a |-> CastObjectId(g.a[i])])
  ELSE Arr(<<>>)

NewBook(obj, id) ==
  [_id |-> id,
   title |-> CastString(Get(obj, "title")),
   author |-> CastObjectId(Get(obj, "author")),
   summary |-> CastString(Get(obj, "summary")),
   isbn |-> CastString(Get(obj, "isbn")),
   genre |-> CastGenre(Get(obj, "genre")),
   invalid |-> (IF BadObjectId(Get(obj, "author")) THEN {"author"} ELSE {})
               \cup (IF GenreCastFails(Get(obj, "genre")) THEN {"genre"} ELSE {})]

BookValid(doc) ==
  /\ doc.invalid = {}
  /\ Required(doc.title) /\ Required(doc.author)
  /\ Required(doc.summary) /\ Required(doc.isbn)
  /\ \A i \in DOMAIN doc.genre.a : Required(doc.genre.a[i])

NewBookInstance(obj, id) ==
  [_id |-> id,
   book |-> CastObjectId(Get(obj, "book")),
   imprint |-> CastString(Get(obj, "imprint")),
   status |-> OrDefault(CastString(Get(obj, "status")), StatusDefault),
   due_back |-> OrDefault(CastDate(Get(obj, "due_back")), DueBackDefault),
   invalid |-> IF BadObjectId(Get(obj, "book")) THEN {"book"} ELSE {}]

BookInstanceValid(doc) ==
  /\ doc.invalid = {}
  /\ Required(doc.book) /\ Required(doc.imprint)
  /\ Required(doc.status) /\ doc.status.s \in StatusEnum

\* the virtual "url" of the three schemas
AuthorUrl(doc) == [path |-> "/catalog/author/", id |-> doc._id]
\* the url of the list in place of the document's
BookUrlPlural(doc) == [path |-> "/catalog/books/", id |-> doc._id]
BookUrl(doc) == [path |-> "/catalog/book/", id |-> doc._id]
BookInstanceUrl(doc) == [path |-> "/catalog/bookinstance/", id |-> doc._id]
ListUrl(p) == [path |-> p, id |-> ""]

(***************************************************************************)
(* The collections (in natural order) and the model methods used           *)
(***************************************************************************)
Ids(coll) == {coll[i]._id : i \in DOMAIN coll}
Paths(doc) == DOMAIN doc \ {"invalid"}
\* what save() and toObject() keep of a document
ToObject(doc) == [f \in Paths(doc) |-> doc[f]]

FindById(coll, id) ==
  LET m == SelectSeq(coll, LAMBDA d : d._id = id)
  IN  IF m = <<>> THEN Null ELSE m[1]

\* Model.find({ref: id})
FindByRef(coll, ref, id) == SelectSeq(coll, LAMBDA d : d[ref] = Oid(id))

\* the lookup on the first name alone
FindOneAuthorByFirstName(first, family) ==
  LET m == SelectSeq(authors, LAMBDA d : d.first_name = first)
  IN  IF m = <<>> THEN Null ELSE m[1]

FindOneAuthor(first, family) ==
  LET m == SelectSeq(authors, LAMBDA d : d.first_name = first /\ d.family_name = family)
  IN  IF m = <<>> THEN Null ELSE m[1]

FindOneBook(title) ==
  LET m == SelectSeq(books, LAMBDA d : d.title = title)
  IN  IF m = <<>> THEN Null ELSE m[1]

\* sort(path), ascending: strings compare by code point, documents with
\* equal keys stay in natural order
CodeOrder ==
  <<" ", "&amp;", "&gt;", "&lt;", "0", "1", "2", "3", "4", "5", "6", "7", "8", "9",
    "a", "b", "c", "d", "e", "f", "y", "z">>
Rank(c) == CHOOSE i \in DOMAIN CodeOrder : CodeOrder[i] = c
RECURSIVE Less(_, _)
Less(s, t) ==
  IF t = <<>> THEN FALSE
  ELSE IF s = <<>> THEN TRUE
  ELSE IF Head(s) = Head(t) THEN Less(Tail(s), Tail(t))
  ELSE Rank(Head(s)) < Rank(Head(t))
RECURSIVE SortBy(_, _)
SortBy(coll, path) ==
  IF coll = <<>> THEN <<>>
  ELSE LET d == coll[Len(coll)]
           sorted == SortBy(SubSeq(coll, 1, Len(coll) - 1), path)
           n == Cardinality({i \in DOMAIN sorted : ~Less(d[path].s, sorted[i][path].s)})
       IN  SubSeq(sorted, 1, n) \o <<d>> \o SubSeq(sorted, n + 1, Len(sorted))

Save(coll, doc) == Append(coll, ToObject(doc))

FindByIdAndRemove(coll, id) == SelectSeq(coll, LAMBDA d : d._id # id)

\* the update is the document's defined paths, applied as $set
Merge(old, doc) ==
  [f \in DOMAIN old |->
     IF f = "_id" THEN old[f]
     ELSE IF doc[f].t = "undefined" THEN old[f] ELSE doc[f]]
\* the update with upsert: a document is inserted when none matches
FindByIdAndUpsert(coll, id, doc) ==
  IF id \in {coll[i]._id : i \in DOMAIN coll}
  THEN [i \in DOMAIN coll |-> IF coll[i]._id = id THEN Merge(coll[i], doc) ELSE coll[i]]
  ELSE Append(coll, [f \in DOMAIN doc \ {"invalid"} |-> doc[f]])
FindByIdAndUpdate(coll, id, doc) ==
  [i \in DOMAIN coll |-> IF coll[i]._id = id THEN Merge(coll[i], doc) ELSE coll[i]]

(***************************************************************************)
(* Requests and responses                                                  *)
(***************************************************************************)
IdToken(n) == ToString(n)
\* a well-formed identifier that no document ever has
DanglingId == "f"
\* the identifiers a request names: those of the collection's documents and
\* one that matches none
IdsFor(coll) == {coll[i]._id : i \in DOMAIN coll} \cup {DanglingId}

Render(view, data) == [kind |-> "render", view |-> view, data |-> data]
Redirect(url) == [kind |-> "redirect", url |-> url]
\* next(err): status is err.status, 0 when the error carries none
NextErr(status, name) == [kind |-> "error", status |-> status, name |-> name]

NoBody == <<>>
NoResp == [h |-> "none", calls |-> <<>>]
Busy == resp.h # "none"
\* a new request is taken up: clients is the number of requests that may be
\* suspended at an await at once (1: one request at a time)
Admit == ~Busy /\ Cardinality(pending) < clients

\* what one handler run did: the request as received (pid, raw), as the
\* last middleware saw it (body, errors), the candidate document and the
\* calls made on res and next, in order.  prev and n0 are history: the
\* identifier the same form was redirected to just before, and the number
\* of documents with its key before that first submission.
Response(h, pid, raw, rq, doc, calls) ==
  [h |-> h, pid |-> pid, raw |-> raw, body |-> rq.body, errors |-> rq.errors,
   doc |-> doc, prev |-> "none", n0 |-> 0, calls |-> calls]

Project(coll, fields) == [i \in DOMAIN coll |-> [f \in fields |-> coll[i][f]]]

S(x) == Str(<<x>>)
Empty == Str(<<>>)

(***************************************************************************)
(* Author controller                                                       *)
(***************************************************************************)
AuthorForms ==
  { [first_name |-> S("z"), family_name |-> S("z")],
    [first_name |-> Str(<<" ", "z">>), family_name |-> S("y"),
     date_of_birth |-> S("2020-01-01"), date_of_death |-> Empty],
    [first_name |-> Empty, family_name |-> S("z"),
     date_of_birth |-> Empty, date_of_death |-> Empty],
    [first_name |-> S("z"), family_name |-> S("<"),
     date_of_birth |-> S("2020-01-01")],
    [first_name |-> S("z"), family_name |-> S("z"),
     date_of_birth |-> S("not-a-date"), date_of_death |-> Empty],
    [first_name |-> S("z"), family_name |-> S("y"),
     date_of_birth |-> S("2020-01-01"), date_of_death |-> S("not-a-date")],
    [family_name |-> Str(<<" ">>)] }

author_list ==
  /\ Admit
  /\ resp' = Response("author_list", "", NoBody, Received(NoBody), Null,
                      <<Render("author_list",
                               [author_list |-> SortBy(authors, "first_name")])>>)
  /\ UNCHANGED <<store, nextId, pending, clients>>

AuthorBooks(id) == Project(FindByRef(books, "author", id), {"_id", "title", "summary"})

\* the detail page that tests the dependents instead of the author
author_detail_by_books ==
  \E id \in IdsFor(authors) :
    LET author == FindById(authors, id)
        view == Render("author_detail",
                       [author |-> author, author_books |-> AuthorBooks(id)])
    IN  /\ Admit
        /\ resp' = Response("author_detail", id, NoBody, Received(NoBody), Null,
                            IF Len(AuthorBooks(id)) = 0
                            THEN <<NextErr(404, "Author not found")>>
                            ELSE <<view>>)
        /\ UNCHANGED <<store, nextId, pending, clients>>

author_detail ==
  \E id \in IdsFor(authors) :
    LET author == FindById(authors, id)
        view == Render("author_detail",
                       [author |-> author, author_books |-> AuthorBooks(id)])
    IN  /\ Admit
        /\ resp' = Response("author_detail", id, NoBody, Received(NoBody), Null,
                            IF author = Null
                            THEN <<NextErr(404, "Author not found")>>
                            ELSE <<view>>)
        /\ UNCHANGED <<store, nextId, pending, clients>>

author_create_get ==
  /\ Admit
  /\ resp' = Response("author_create_get", "", NoBody, Received(NoBody), Null,
                      <<Render("author_form", [author |-> Undefined])>>)
  /\ UNCHANGED <<store, nextId, pending, clients>>

\* the same form, sent again right after it was answered with a redirect
\* (by a client that is alone: the two requests run in sequence)
Resubmitted(h, raw) ==
  /\ resp.h = h /\ resp.raw = raw
  /\ Len(resp.calls) = 1 /\ resp.calls[1].kind = "redirect"

AuthorKeyCount(doc) ==
  Cardinality({i \in DOMAIN authors :
                 /\ authors[i].first_name = doc.first_name
                 /\ authors[i].family_name = doc.family_name})

\* lines 63-84: up to the await of the lookup
author_create_post ==
  \E raw \in AuthorForms :
    LET rq == AuthorChain(raw)
        doc == NewAuthor(rq.body, IdToken(nextId))
        found == FindOneAuthor(doc.first_name, doc.family_name)
        again == clients = 1 /\ Resubmitted("author_create_post", raw)
        r == [Response("author_create_post", "", raw, rq, doc, <<>>) EXCEPT
                !.prev = IF again THEN resp.calls[1].url.id ELSE "none",
                !.n0 = IF again THEN resp.n0 ELSE AuthorKeyCount(doc)]
    IN  /\ Admit \/ (again /\ Cardinality(pending) < clients)
        /\ IF Rejected(rq)
           THEN /\ ~Busy
                /\ resp' = [r EXCEPT !.calls =
                              <<Render("author_form",
                                       [author |-> doc, errors |-> rq.errors])>>]
                /\ UNCHANGED <<nextId, pending>>
           ELSE /\ found = Null => nextId <= MaxId
                /\ pending' = pending \cup
                     {[r EXCEPT !.doc._id = IF found = Null THEN @ ELSE "unused"]
                        @@ [found |-> found]}
                /\ nextId' = IF found = Null THEN nextId + 1 ELSE nextId
                /\ resp' = NoResp
        /\ UNCHANGED <<store, clients>>

\* lines 86-93: after the lookup
\* the save that looks the key up again, in one step with the insert
author_create_post_save_atomic ==
  \E r \in pending :
    /\ r.h = "author_create_post"
    /\ ~Busy
    /\ pending' = pending \ {r}
    /\ LET done == [f \in DOMAIN r \ {"found"} |-> r[f]]
           now == FindOneAuthor(r.doc.first_name, r.doc.family_name)
       IN  IF now # Null
           THEN /\ resp' = [done EXCEPT !.calls = <<Redirect(AuthorUrl(now))>>]
                /\ UNCHANGED authors
           ELSE /\ authors' = Save(authors, r.doc)
                /\ resp' = [done EXCEPT !.calls = <<Redirect(AuthorUrl(r.doc))>>]
    /\ UNCHANGED <<books, bookinstances, nextId, clients>>

author_create_post_save ==
  \E r \in pending :
    /\ r.h = "author_create_post"
    /\ ~Busy
    /\ pending' = pending \ {r}
    /\ LET done == [f \in DOMAIN r \ {"found"} |-> r[f]]
       IN  IF r.found # Null
           THEN /\ resp' = [done EXCEPT !.calls = <<Redirect(AuthorUrl(r.found))>>]
                /\ UNCHANGED authors
           ELSE IF AuthorValid(r.doc)
           THEN /\ authors' = Save(authors, r.doc)
                /\ resp' = [done EXCEPT !.calls = <<Redirect(AuthorUrl(r.doc))>>]
           ELSE /\ resp' = [done EXCEPT !.calls = <<NextErr(0, "ValidationError")>>]
                /\ UNCHANGED authors
    /\ UNCHANGED <<books, bookinstances, nextId, clients>>

author_delete_get ==
  \E id \in IdsFor(authors) :
    LET author == FindById(authors, id)
        view == Render("author_delete",
                       [author |-> author, author_books |-> AuthorBooks(id)])
    IN  /\ Admit
        /\ resp' = Response("author_delete_get", id, NoBody, Received(NoBody), Null,
                            IF author = Null
                            THEN <<Redirect(ListUrl("/catalog/authors")), view>>
                            ELSE <<view>>)
        /\ UNCHANGED <<store, nextId, pending, clients>>

DeleteForms(field, coll) ==
  {[f \in {field} |-> S(id)] : id \in IdsFor(coll)}
    \cup {[f \in {field} |-> Empty], NoBody}

\* lines 121-134: the two reads, and the refusal
author_delete_post ==
  \E id \in IdsFor(authors), raw \in DeleteForms("authorid", authors) :
    LET rq == IdField(Received(raw), "authorid")
        author == FindById(authors, id)
        allBooksByAuthor == AuthorBooks(id)
        r == Response("author_delete_post", id, raw, rq, Null, <<>>)
    IN  /\ Admit
        /\ IF Len(allBooksByAuthor) > 0
           THEN /\ resp' = [r EXCEPT !.calls =
                              <<Render("author_delete",
                                       [author |-> author,
                                        author_books |-> allBooksByAuthor])>>]
                /\ UNCHANGED pending
           ELSE /\ pending' = pending \cup {r}
                /\ resp' = NoResp
        /\ UNCHANGED <<store, nextId, clients>>

\* lines 135-139: the removal
author_delete_post_remove ==
  \E r \in pending :
    /\ r.h = "author_delete_post"
    /\ ~Busy
    /\ pending' = pending \ {r}
    /\ IF IsObjectId(r.body.authorid.s)
       THEN /\ authors' = FindByIdAndRemove(authors, r.body.authorid.s[1])
            /\ resp' = [r EXCEPT !.calls = <<Redirect(ListUrl("/catalog/authors"))>>]
       ELSE /\ resp' = [r EXCEPT !.calls = <<NextErr(0, "CastError")>>]
            /\ UNCHANGED authors
    /\ UNCHANGED <<books, bookinstances, nextId, clients>>

author_update_get ==
  \E id \in IdsFor(authors) :
    LET author == FindById(authors, id)
    IN  /\ Admit
        /\ resp' = Response("author_update_get", id, NoBody, Received(NoBody), Null,
                            IF author = Null
                            THEN <<NextErr(404, "Author not found")>>
                            ELSE <<Render("author_form", [author |-> author])>>)
        /\ UNCHANGED <<store, nextId, pending, clients>>

author_update_post ==
  \E id \in IdsFor(authors), raw \in AuthorForms :
    LET rq == AuthorChain(raw)
        author == NewAuthor(rq.body, id)
        theAuthor == FindById(authors, id)
        r == Response("author_update_post", id, raw, rq, author, <<>>)
    IN  /\ Admit
        /\ IF Rejected(rq)
           THEN /\ resp' = [r EXCEPT !.calls =
                              <<Render("author_form",
                                       [author |-> author, errors |-> rq.errors])>>]
                /\ UNCHANGED authors
           ELSE /\ authors' = FindByIdAndUpdate(authors, id, author)
                /\ resp' = [r EXCEPT !.calls =
                              IF theAuthor = Null
                              THEN <<NextErr(0, "TypeError")>>
                              ELSE <<Redirect(AuthorUrl(theAuthor))>>]
        /\ UNCHANGED <<books, bookinstances, nextId, pending, clients>>

(***************************************************************************)
(* Book controller                                                         *)
(***************************************************************************)
GenreA == "a"
GenreB == "b"

BookForms ==
  UNION {
    { [title |-> S("z"), author |-> S(a), summary |-> S("z"), isbn |-> S("1")],
      [title |-> Str(<<" ", "<">>), author |-> S(a), summary |-> S("z"),
       isbn |-> S("1"), genre |-> S(GenreA)],
      [title |-> S("z"), author |-> S(a), summary |-> S("z"), isbn |-> S("1"),
       genre |-> Arr(<<S(GenreA), S(GenreB)>>)] } :
    a \in IdsFor(authors) }
  \cup
  { [title |-> Empty, author |-> S(DanglingId), summary |-> S("z"),
     isbn |-> S("1"), genre |-> S(GenreA)],
    [title |-> S("z"), author |-> Empty, summary |-> Str(<<" ">>),
     genre |-> Arr(<<>>)],
    [title |-> Str(<<" ">>), author |-> S(DanglingId), summary |-> S("z"),
     isbn |-> S("1")],
    [title |-> S("z"), author |-> Str(<<"z", "z">>), summary |-> S("z"),
     isbn |-> S("1")],
    [title |-> S("z"), author |-> S(DanglingId), summary |-> S("z"),
     isbn |-> S("1"), genre |-> S("<")] }

BookCopies(id) == FindByRef(bookinstances, "book", id)

\* populate(path): the referenced document in place of its identifier
Populate(doc, path, coll) ==
  IF doc[path].t = "objectid"
  THEN [doc EXCEPT ![path] = FindById(coll, doc[path].id)]
  ELSE doc

\* the home page (the genres are a collection of their own, with no
\* controller here: their count is left out)
index ==
  /\ Admit
  /\ resp' = Response("index", "", NoBody, Received(NoBody), Null,
        <<Render("index",
                 [book_count |-> Len(books),
                  book_instance_count |-> Len(bookinstances),
                  book_instance_available_count |->
                    Len(SelectSeq(bookinstances,
                                  LAMBDA d : d.status = Str(<<"Available">>))),
                  author_count |-> Len(authors)])>>)
  /\ UNCHANGED <<store, nextId, pending, clients>>

book_list ==
  LET found == SortBy(Project(books, {"_id", "title", "author"}), "title")
  IN  /\ Admit
      /\ resp' = Response("book_list", "", NoBody, Received(NoBody), Null,
                          <<Render("book_list",
                                   [book_list |->
                                      [i \in DOMAIN found |->
                                         Populate(found[i], "author", authors)]])>>)
      /\ UNCHANGED <<store, nextId, pending, clients>>

book_detail ==
  \E id \in IdsFor(books) :
    LET book == FindById(books, id)
    IN  /\ Admit
        /\ resp' = Response("book_detail", id, NoBody, Received(NoBody), Null,
                            IF book = Null
                            THEN <<NextErr(404, "Book not found")>>
                            ELSE <<Render("book_detail",
                                          [book |-> Populate(book, "author", authors),
                                           book_instances |-> BookCopies(id)])>>)
        /\ UNCHANGED <<store, nextId, pending, clients>>

book_create_get ==
  /\ Admit
  /\ resp' = Response("book_create_get", "", NoBody, Received(NoBody), Null,
                      <<Render("book_form", [authors |-> authors])>>)
  /\ UNCHANGED <<store, nextId, pending, clients>>

BookKeyCount(doc) ==
  Cardinality({i \in DOMAIN books : books[i].title = doc.title})

BookFormView(book, errors) ==
  Render("book_form", [authors |-> authors, book |-> book, errors |-> errors])

\* lines 268-335: the middlewares, up to the await of the lookup
book_create_post ==
  \E raw \in BookForms :
    LET rq == BookChain(raw)
        book == NewBook(rq.body, IdToken(nextId))
        bookExists == FindOneBook(book.title)
        again == clients = 1 /\ Resubmitted("book_create_post", raw)
        r == [Response("book_create_post", "", raw, rq, book, <<>>) EXCEPT
                !.prev = IF again THEN resp.calls[1].url.id ELSE "none",
                !.n0 = IF again THEN resp.n0 ELSE BookKeyCount(book)]
    IN  /\ Admit \/ (again /\ Cardinality(pending) < clients)
        /\ IF Rejected(rq)
           THEN /\ ~Busy
                /\ resp' = [r EXCEPT !.calls = <<BookFormView(book, rq.errors)>>]
                /\ UNCHANGED <<nextId, pending>>
           ELSE /\ bookExists = Null => nextId <= MaxId
                /\ pending' = pending \cup
                     {[r EXCEPT !.doc._id = IF bookExists = Null THEN @ ELSE "unused"]
                        @@ [found |-> bookExists]}
                /\ nextId' = IF bookExists = Null THEN nextId + 1 ELSE nextId
                /\ resp' = NoResp
        /\ UNCHANGED <<store, clients>>

\* lines 336-341: after the lookup
book_create_post_save ==
  \E r \in pending :
    /\ r.h = "book_create_post"
    /\ ~Busy
    /\ pending' = pending \ {r}
    /\ LET done == [f \in DOMAIN r \ {"found"} |-> r[f]]
       IN  IF r.found # Null
           THEN /\ resp' = [done EXCEPT !.calls = <<Redirect(BookUrl(r.found))>>]
                /\ UNCHANGED books
           ELSE IF BookValid(r.doc)
           THEN /\ books' = Save(books, r.doc)
                /\ resp' = [done EXCEPT !.calls = <<Redirect(BookUrl(r.doc))>>]
           ELSE /\ resp' = [done EXCEPT !.calls = <<NextErr(0, "ValidationError")>>]
                /\ UNCHANGED books
    /\ UNCHANGED <<authors, bookinstances, nextId, clients>>

book_delete_get ==
  \E id \in IdsFor(books) :
    LET book == FindById(books, id)
        view == Render("book_delete",
                       [book |-> book, bookinstances |-> BookCopies(id)])
    IN  /\ Admit
        /\ resp' = Response("book_delete_get", id, NoBody, Received(NoBody), Null,
                            IF book = Null
                            THEN <<Redirect(ListUrl("/catalog/books")), view>>
                            ELSE <<view>>)
        /\ UNCHANGED <<store, nextId, pending, clients>>

\* lines 371-381: the two reads, and the refusal
book_delete_post ==
  \E id \in IdsFor(books), raw \in DeleteForms("bookid", books) :
    LET rq == IdField(Received(raw), "bookid")
        book == FindById(books, id)
        bookInstances == BookCopies(id)
        r == Response("book_delete_post", id, raw, rq, Null, <<>>)
    IN  /\ Admit
        /\ IF Len(bookInstances) > 0
           THEN /\ resp' = [r EXCEPT !.calls =
                              <<Render("book_delete",
                                       [book |-> book,
                                        bookinstances |-> bookInstances])>>]
                /\ UNCHANGED pending
           ELSE /\ pending' = pending \cup {r}
                /\ resp' = NoResp
        /\ UNCHANGED <<store, nextId, clients>>

\* lines 382-386: the removal
book_delete_post_remove ==
  \E r \in pending :
    /\ r.h = "book_delete_post"
    /\ ~Busy
    /\ pending' = pending \ {r}
    /\ IF IsObjectId(r.body.bookid.s)
       THEN /\ books' = FindByIdAndRemove(books, r.body.bookid.s[1])
            /\ resp' = [r EXCEPT !.calls = <<Redirect(ListUrl("/catalog/books"))>>]
       ELSE /\ resp' = [r EXCEPT !.calls = <<NextErr(0, "CastError")>>]
            /\ UNCHANGED books
    /\ UNCHANGED <<authors, bookinstances, nextId, clients>>

book_update_get ==
  \E id \in IdsFor(books) :
    LET book == FindById(books, id)
    IN  /\ Admit
        /\ resp' = Response("book_update_get", id, NoBody, Received(NoBody), Null,
                            IF book = Null
                            THEN <<NextErr(404, "Book not found")>>
                            ELSE <<Render("book_form",
                                          [authors |-> authors,
                                           book |-> Populate(book, "author", authors)])>>)
        /\ UNCHANGED <<store, nextId, pending, clients>>

book_update_post ==
  \E id \in IdsFor(books), raw \in BookForms :
    LET rq == BookChain(raw)
        book == NewBook(rq.body, id)
        thebook == FindById(books, id)
        r == Response("book_update_post", id, raw, rq, book, <<>>)
    IN  /\ Admit
        /\ IF Rejected(rq)
           THEN /\ resp' = [r EXCEPT !.calls = <<BookFormView(book, rq.errors)>>]
                /\ UNCHANGED books
           ELSE /\ books' = FindByIdAndUpdate(books, id, book)
                /\ resp' = [r EXCEPT !.calls =
                              IF thebook = Null
                              THEN <<NextErr(0, "TypeError")>>
                              ELSE <<Redirect(BookUrl(thebook))>>]
        /\ UNCHANGED <<authors, bookinstances, nextId, pending, clients>>

(***************************************************************************)
(* BookInstance controller                                                 *)
(***************************************************************************)
BookInstanceForms ==
  UNION {
    { [book |-> S(b), imprint |-> S("z"), status |-> S("Available")],
      [book |-> S(b), imprint |-> Str(<<"z", " ">>), status |-> S("Loaned"),
       due_back |-> S("2020-01-01")],
      [book |-> S(b), imprint |-> S("z"), status |-> S("Lost"),
       due_back |-> Empty] } :
    b \in IdsFor(books) }
  \cup
  { [book |-> S(DanglingId), imprint |-> S("z"), due_back |-> Empty],
    [book |-> Empty, imprint |-> S("z"), status |-> S("Available"),
     due_back |-> Empty],
    [book |-> S(DanglingId), status |-> S("Maintenance"),
     due_back |-> S("not-a-date")],
    [book |-> Str(<<"z", "z">>), imprint |-> S("z"), status |-> S("Available")] }

\* the render of the form with the failures: reading bookInstance.book._id
\* throws when the candidate has no book
BookInstanceFormCalls(bookInstance, errors) ==
  IF bookInstance.book.t = "objectid"
  THEN <<Render("bookinstance_form",
                [book_list |-> Project(books, {"_id", "title"}),
                 selected_book |-> bookInstance.book.id,
                 bookinstance |-> bookInstance,
                 errors |-> errors])>>
  ELSE <<NextErr(0, "TypeError")>>

bookinstance_list ==
  /\ Admit
  /\ resp' = Response("bookinstance_list", "", NoBody, Received(NoBody), Null,
                      <<Render("bookinstance_list",
                               [bookinstance_list |->
                                  [i \in DOMAIN bookinstances |->
                                     Populate(bookinstances[i], "book", books)]])>>)
  /\ UNCHANGED <<store, nextId, pending, clients>>

bookinstance_detail ==
  \E id \in IdsFor(bookinstances) :
    LET bookInstance == FindById(bookinstances, id)
    IN  /\ Admit
        /\ resp' = Response("bookinstance_detail", id, NoBody, Received(NoBody), Null,
                            IF bookInstance = Null
                            THEN <<NextErr(404, "Book copy not found")>>
                            ELSE <<Render("bookinstance_detail",
                                          [bookinstance |->
                                             Populate(bookInstance, "book", books)])>>)
        /\ UNCHANGED <<store, nextId, pending, clients>>

bookinstance_create_get ==
  /\ Admit
  /\ resp' = Response("bookinstance_create_get", "", NoBody, Received(NoBody), Null,
                      <<Render("bookinstance_form",
                               [book_list |-> Project(books, {"_id", "title"})])>>)
  /\ UNCHANGED <<store, nextId, pending, clients>>

bookinstance_create_post ==
  \E raw \in BookInstanceForms :
    LET rq == BookInstanceChain(raw)
        bookInstance == NewBookInstance(rq.body, IdToken(nextId))
        r == Response("bookinstance_create_post", "", raw, rq, bookInstance, <<>>)
    IN  /\ Admit
        /\ IF Rejected(rq)
           THEN /\ resp' = [r EXCEPT !.calls =
                              BookInstanceFormCalls(bookInstance, rq.errors)]
                /\ UNCHANGED <<bookinstances, nextId>>
           ELSE IF BookInstanceValid(bookInstance)
           THEN /\ nextId <= MaxId
                /\ bookinstances' = Save(bookinstances, bookInstance)
                /\ nextId' = nextId + 1
                /\ resp' = [r EXCEPT !.calls = <<Redirect(BookInstanceUrl(bookInstance))>>]
           ELSE /\ resp' = [r EXCEPT !.calls = <<NextErr(0, "ValidationError")>>]
                /\ UNCHANGED <<bookinstances, nextId>>
        /\ UNCHANGED <<authors, books, pending, clients>>

bookinstance_delete_get ==
  \E id \in IdsFor(bookinstances) :
    LET bookInstance == FindById(bookinstances, id)
        view == Render("bookinstance_delete",
                       [bookinstance |->
                          IF bookInstance = Null THEN Null
                          ELSE Populate(bookInstance, "book", books)])
    IN  /\ Admit
        /\ resp' = Response("bookinstance_delete_get", id, NoBody, Received(NoBody),
                            Null,
                            IF bookInstance = Null
                            THEN <<Redirect(ListUrl("/catalog/bookinstances")), view>>
                            ELSE <<view>>)
        /\ UNCHANGED <<store, nextId, pending, clients>>

\* the handler whose failure branch returns after its redirect
bookinstance_delete_post_return ==
  \E id \in IdsFor(bookinstances), raw \in DeleteForms("bookinstanceid", bookinstances) :
    LET rq == IdField(Received(raw), "bookinstanceid")
        r == Response("bookinstance_delete_post", id, raw, rq, Null, <<>>)
    IN  /\ Admit
        /\ IF Rejected(rq)
           THEN /\ resp' = [r EXCEPT !.calls =
                              <<Redirect(ListUrl("/catalog/bookinstances"))>>]
                /\ UNCHANGED bookinstances
           ELSE IF IsObjectId(rq.body.bookinstanceid.s)
           THEN /\ bookinstances' =
                     FindByIdAndRemove(bookinstances, rq.body.bookinstanceid.s[1])
                /\ resp' = [r EXCEPT !.calls =
                              <<Redirect(ListUrl("/catalog/bookinstances"))>>]
           ELSE /\ resp' = [r EXCEPT !.calls = <<NextErr(0, "CastError")>>]
                /\ UNCHANGED bookinstances
        /\ UNCHANGED <<authors, books, nextId, pending, clients>>

bookinstance_delete_post ==
  \E id \in IdsFor(bookinstances), raw \in DeleteForms("bookinstanceid", bookinstances) :
    LET rq == IdField(Received(raw), "bookinstanceid")
        r == Response("bookinstance_delete_post", id, raw, rq, Null, <<>>)
        first == IF Rejected(rq)
                 THEN <<Redirect(ListUrl("/catalog/bookinstances"))>>
                 ELSE <<>>
    IN  /\ Admit
        /\ IF IsObjectId(rq.body.bookinstanceid.s)
           THEN /\ bookinstances' =
                     FindByIdAndRemove(bookinstances, rq.body.bookinstanceid.s[1])
                /\ resp' = [r EXCEPT !.calls =
                              first \o <<Redirect(ListUrl("/catalog/bookinstances"))>>]
           ELSE /\ resp' = [r EXCEPT !.calls = first \o <<NextErr(0, "CastError")>>]
                /\ UNCHANGED bookinstances
        /\ UNCHANGED <<authors, books, nextId, pending, clients>>

bookinstance_update_get ==
  \E id \in IdsFor(bookinstances) :
    LET bookInstance == FindById(bookinstances, id)
    IN  /\ Admit
        /\ resp' = Response("bookinstance_update_get", id, NoBody, Received(NoBody),
                            Null,
                            IF bookInstance = Null
                            THEN <<NextErr(404, "No Book Instance Found")>>
                            ELSE <<Render("bookinstance_form",
                                          [book_list |-> Project(books, {"_id", "title"}),
                                           bookinstance |->
                                             Populate(bookInstance, "book", books)])>>)
        /\ UNCHANGED <<store, nextId, pending, clients>>

bookinstance_update_post ==
  \E id \in IdsFor(bookinstances), raw \in BookInstanceForms :
    LET rq == BookInstanceChain(raw)
        bookInstance == NewBookInstance(rq.body, id)
        theBookInstance == FindById(bookinstances, id)
        r == Response("bookinstance_update_post", id, raw, rq, bookInstance, <<>>)
    IN  /\ Admit
        /\ IF Rejected(rq)
           THEN /\ resp' = [r EXCEPT !.calls =
                              BookInstanceFormCalls(bookInstance, rq.errors)]
                /\ UNCHANGED bookinstances
           ELSE /\ bookinstances' = FindByIdAndUpdate(bookinstances, id, bookInstance)
                /\ resp' = [r EXCEPT !.calls =
                              IF theBookInstance = Null
                              THEN <<NextErr(0, "TypeError")>>
                              ELSE <<Redirect(BookInstanceUrl(theBookInstance))>>]
        /\ UNCHANGED <<authors, books, nextId, pending, clients>>

\* the response leaves the process: the exchange is over
Deliver ==
  /\ Busy
  /\ resp' = NoResp
  /\ UNCHANGED <<store, nextId, pending, clients>>

Init ==
  /\ authors = <<>>
  /\ books = <<>>
  /\ bookinstances = <<>>
  /\ nextId = 1
  /\ pending = {}
  /\ resp = NoResp
  /\ clients = 1

Next ==
  \/ index
  \/ author_list
  \/ book_list
  \/ bookinstance_list
  \/ author_detail
  \/ author_create_get
  \/ author_create_post
  \/ author_delete_get
  \/ author_delete_post
  \/ author_update_get
  \/ author_update_post
  \/ author_create_post_save
  \/ author_delete_post_remove
  \/ book_detail
  \/ book_create_get
  \/ book_create_post
  \/ book_create_post_save
  \/ book_delete_get
  \/ book_delete_post
  \/ book_delete_post_remove
  \/ book_update_get
  \/ book_update_post
  \/ bookinstance_detail
  \/ bookinstance_create_get
  \/ bookinstance_create_post
  \/ bookinstance_delete_get
  \/ bookinstance_delete_post
  \/ bookinstance_update_get
  \/ bookinstance_update_post
  \/ Deliver

Spec == Init /\ [][Next]_vars

(***************************************************************************)
(* Several create requests in flight: each await is a point where another  *)
(* request's step may run.                                                 *)
(***************************************************************************)
InitRace ==
  /\ authors = <<>>
  /\ books = <<>>
  /\ bookinstances = <<>>
  /\ nextId = 1
  /\ pending = {}
  /\ resp = NoResp
  /\ clients = MaxInflight

NextRace ==
  \/ author_create_post
  \/ author_create_post_save
  \/ book_create_post
  \/ book_create_post_save
  \/ Deliver

SpecRace == InitRace /\ [][NextRace]_vars

(***************************************************************************)
(* Properties                                                              *)
(***************************************************************************)
\* this step ends the suspended request r with a response
Completes(r) == r \in pending /\ r \notin pending' /\ resp'.h = r.h
\* this step is a whole handler run that answers
Answers(h) == resp.h = "none" /\ resp'.h = h

RedirectsTo(rs, path, id) ==
  rs.calls = <<[kind |-> "redirect", url |-> [path |-> path, id |-> id]]>>
FailsWith(rs, status, name) ==
  rs.calls = <<[kind |-> "error", status |-> status, name |-> name]>>

AuthorsWithKey(coll, body) ==
  {i \in DOMAIN coll : /\ coll[i].first_name = body.first_name
                       /\ coll[i].family_name = body.family_name}
BooksWithKey(coll, body) == {i \in DOMAIN coll : coll[i].title = body.title}

\* the stored collection grew by exactly the document with identifier id
Inserted(old, new, id) ==
  /\ Len(new) = Len(old) + 1
  /\ SubSeq(new, 1, Len(old)) = old
  /\ new[Len(new)]._id = id
  /\ id \notin Ids(old)

\* author and every genre of the sanitized form are well-formed identifiers
WellFormedRefs(body) ==
  /\ IsObjectId(body.author.s)
  /\ \A i \in DOMAIN body.genre.a : IsObjectId(body.genre.a[i].s)

C1_AuthorCreate(r, strict) ==
  LET K == AuthorsWithKey(authors, r.body)
  IN  /\ UNCHANGED <<books, bookinstances>>
      /\ IF K # {}
         THEN /\ UNCHANGED authors
              /\ \E i \in K : RedirectsTo(resp', "/catalog/author/", authors[i]._id)
         ELSE /\ Inserted(authors, authors', r.doc._id)
              /\ AuthorsWithKey(authors', r.body) = {Len(authors')}
              /\ RedirectsTo(resp', "/catalog/author/", r.doc._id)
      /\ r.prev # "none" =>
           /\ RedirectsTo(resp', "/catalog/author/", r.prev)
           /\ strict \/ r.n0 <= 1 => Cardinality(AuthorsWithKey(authors', r.body)) = 1

C1_BookCreate(r, strict) ==
  LET K == BooksWithKey(books, r.body)
  IN  /\ UNCHANGED <<authors, bookinstances>>
      /\ IF K # {}
         THEN /\ UNCHANGED books
              /\ \E i \in K : RedirectsTo(resp', "/catalog/book/", books[i]._id)
         ELSE IF strict \/ WellFormedRefs(r.body)
         THEN /\ Inserted(books, books', r.doc._id)
              /\ BooksWithKey(books', r.body) = {Len(books')}
              /\ RedirectsTo(resp', "/catalog/book/", r.doc._id)
         ELSE /\ UNCHANGED books
              /\ FailsWith(resp', 0, "ValidationError")
      /\ r.prev # "none" =>
           /\ RedirectsTo(resp', "/catalog/book/", r.prev)
           /\ strict \/ r.n0 <= 1 => Cardinality(BooksWithKey(books', r.body)) = 1

C1_Step(strict) ==
  \A r \in pending :
    /\ Completes(r) /\ r.h = "author_create_post" => C1_AuthorCreate(r, strict)
    /\ Completes(r) /\ r.h = "book_create_post" => C1_BookCreate(r, strict)

\* C1 as stated: a create that passed validation and whose key (first and
\* family name; title) is already stored inserts nothing and redirects to
\* the stored document, any other inserts exactly one document; the same
\* form sent twice in sequence leaves exactly one document with the key and
\* is redirected to the same identifier both times.
C1_AsStated == [][C1_Step(TRUE)]_vars

\* C1 amended: as stated, except that a Book whose author or genre is not a
\* well-formed identifier is not inserted (the save fails and the error goes
\* to the boundary), and that the same form sent twice in sequence leaves
\* exactly one document with the key when at most one had it before.
C1_Dedup == [][C1_Step(FALSE)]_vars

\* C1: the second of two submissions of one form in sequence was answered
C1_Witness ==
  /\ resp.h \in {"author_create_post", "book_create_post"}
  /\ resp.prev # "none"
  /\ Len(resp.calls) = 1 /\ resp.calls[1].kind = "redirect"

WriteForms ==
  {"author_create_post", "author_update_post", "book_create_post",
   "book_update_post", "bookinstance_create_post", "bookinstance_update_post"}

\* C2: a create or update submission of Author, Book or BookInstance in which
\* at least one field rule failed leaves every stored collection as it was.
C2_NotPersisted ==
  [][\A h \in WriteForms : Answers(h) /\ resp'.errors # {} => UNCHANGED store]_vars

\* C2: an update of a stored author was answered with failures
C2_Witness ==
  /\ resp.h = "author_update_post"
  /\ resp.errors # {}
  /\ resp.pid \in Ids(authors)

C3_Guard(h, coll, collAfter, deps, ref) ==
  Answers(h) =>
    \A id \in Ids(coll) \ Ids(collAfter) : Len(FindByRef(deps, ref, id)) = 0

C3_Refusal(h, deps, view) ==
  Answers(h) /\ Len(deps) > 0 => UNCHANGED store /\ resp'.calls = <<view>>

\* C3 as stated: author_delete_post never removes an Author that a stored
\* Book references and book_delete_post never removes a Book that a stored
\* BookInstance references, whatever the path identifier and the submitted
\* authorid/bookid; when dependents of the path identifier exist the handler
\* renders the view and data of the confirm-delete page and writes nothing.
C3_DeleteGuard ==
  [][/\ C3_Guard("author_delete_post", authors, authors', books, "author")
     /\ C3_Guard("book_delete_post", books, books', bookinstances, "book")
     /\ C3_Refusal("author_delete_post", AuthorBooks(resp'.pid),
                   Render("author_delete",
                          [author |-> FindById(authors, resp'.pid),
                           author_books |-> AuthorBooks(resp'.pid)]))
     /\ C3_Refusal("book_delete_post", BookCopies(resp'.pid),
                   Render("book_delete",
                          [book |-> FindById(books, resp'.pid),
                           bookinstances |-> BookCopies(resp'.pid)]))]_vars

\* C4 as stated: once book_delete_post has run for a stored Book that no
\* BookInstance references, that Book is no longer stored, and book_detail
\* for an identifier that is not stored answers 404.
C4_DeletedBookGone ==
  [][/\ Answers("book_delete_post") /\ resp'.pid \in Ids(books)
          /\ Len(FindByRef(bookinstances, "book", resp'.pid)) = 0
        => resp'.pid \notin Ids(books')
     /\ Answers("book_detail") /\ resp'.pid \notin Ids(books)
        => FailsWith(resp', 404, "Book not found")]_vars

DetailOf ==
  [author_detail |-> "authors", book_detail |-> "books",
   bookinstance_detail |-> "bookinstances"]
Stored(c) ==
  CASE c = "authors" -> authors [] c = "books" -> books
    [] c = "bookinstances" -> bookinstances

C6_LookupThenInsert ==
  [][\A r \in pending :
       Completes(r) /\ r.found = Null =>
         /\ r.h = "author_create_post" =>
              /\ Inserted(authors, authors', r.doc._id)
              /\ AuthorsWithKey(authors, r.body) # {} =>
                   Cardinality(AuthorsWithKey(authors', r.body)) >= 2
         /\ r.h = "book_create_post" /\ WellFormedRefs(r.body) =>
              /\ Inserted(books, books', r.doc._id)
              /\ BooksWithKey(books, r.body) # {} =>
                   Cardinality(BooksWithKey(books', r.body)) >= 2]_vars

\* C6: two stored authors share first and family name
C6_Witness ==
  \E i, j \in DOMAIN authors :
    /\ i < j
    /\ authors[i].first_name = authors[j].first_name
    /\ authors[i].family_name = authors[j].family_name

BookPosts == {"book_create_post", "book_update_post"}
\* the list the genre field is to become: [] when absent, [g] for a single
\* value g, the list itself otherwise
GenreList(raw) ==
  IF "genre" \notin DOMAIN raw THEN <<>>
  ELSE IF raw.genre.t = "array" THEN raw.genre.a
  ELSE <<raw.genre>>

\* C7: in book_create_post and book_update_post the genre field is a list
\* when the rules run: the empty list when absent, the one-element list [g]
\* for a single value g, the list itself when it is one (the rules then
\* escape its elements in place); the candidate's genre is always a list.
C7_GenreIsList ==
  resp.h \in BookPosts =>
    /\ resp.body.genre.t = "array"
    /\ Len(resp.body.genre.a) = Len(GenreList(resp.raw))
    /\ \A i \in DOMAIN resp.body.genre.a :
         resp.body.genre.a[i] = Str(Escape(GenreList(resp.raw)[i].s))
    /\ resp.doc.genre.t = "array"

\* C7: a Book form with a single genre value was answered
C7_Witness ==
  /\ resp.h \in BookPosts
  /\ "genre" \in DOMAIN resp.raw /\ resp.raw.genre.t = "string"
  /\ resp.body.genre = Arr(<<resp.raw.genre>>)

DateFields ==
  [author_create_post |-> {"date_of_birth", "date_of_death"},
   author_update_post |-> {"date_of_birth", "date_of_death"},
   bookinstance_create_post |-> {"due_back"},
   bookinstance_update_post |-> {"due_back"}]
NoInput(raw, f) == f \notin DOMAIN raw \/ raw[f] = Empty

\* C8: for date_of_birth and date_of_death of Author and due_back of
\* BookInstance, on create and on update: an empty or absent input gives no
\* failure for the field and neither the field after the rules nor the
\* candidate carries a submitted date (the candidate's value is absent, null
\* or the schema default); an input that is not empty and not ISO-8601 gives
\* a failure tagged with the field, and nothing is written.
C8_DateFields ==
  [][\A h \in DOMAIN DateFields : \A f \in DateFields[h] :
       Answers(h) =>
         /\ NoInput(resp'.raw, f) =>
              /\ f \notin resp'.errors
              /\ Get(resp'.body, f).t # "date"
              /\ resp'.doc[f] \in {Undefined, Null, DueBackDefault}
         /\ ~NoInput(resp'.raw, f) /\ ~IsISO8601(resp'.raw[f].s) =>
              /\ f \in resp'.errors
              /\ UNCHANGED store]_vars

\* C8: an Author form with a date of birth that is not a date and an empty
\* date of death was answered
C8_Witness ==
  /\ resp.h \in {"author_create_post", "author_update_post"}
  /\ "date_of_birth" \in DOMAIN resp.raw /\ resp.raw.date_of_birth = S("not-a-date")
  /\ "date_of_death" \in DOMAIN resp.raw /\ resp.raw.date_of_death = Empty
  /\ resp.errors = {"date_of_birth"}

BookText == {"title", "author", "summary", "isbn"}
\* Book forms with title, author, summary and isbn given and not empty (once
\* trimmed, as the rules read them), and no genre field
C9_Given(raw) ==
  /\ "genre" \notin DOMAIN raw
  /\ \A f \in BookText :
       f \in DOMAIN raw /\ raw[f].t = "string" /\ Trim(raw[f].s) # <<>>
\* the title as the rules leave it
C9_Title(raw) == Str(Escape(Trim(raw.title.s)))

C9_Succeeds ==
  /\ Len(books') = Len(books) + 1
  /\ SubSeq(books', 1, Len(books)) = books
  /\ books'[Len(books')].genre = Arr(<<>>)
  /\ books'[Len(books')]._id \notin Ids(books)
  /\ RedirectsTo(resp', "/catalog/book/", books'[Len(books')]._id)

\* C9 as stated: a Book create with non-empty title, author, summary and
\* isbn, no genre field, and no stored Book with that title inserts exactly
\* one Book with an empty genre list and redirects to /catalog/book/{id} of
\* the inserted document.
C9_AsStated ==
  [][/\ Answers("book_create_post")
     /\ C9_Given(resp'.raw)
     /\ \A i \in DOMAIN books : books[i].title # C9_Title(resp'.raw)
     => C9_Succeeds]_vars

\* C9 amended: the same, for a form whose author is a well-formed identifier.
C9_CreateWithoutGenre ==
  [][/\ Answers("book_create_post")
     /\ C9_Given(resp'.raw)
     /\ IsObjectId(Trim(resp'.raw.author.s))
     /\ \A i \in DOMAIN books : books[i].title # C9_Title(resp'.raw)
     => C9_Succeeds]_vars

\* C9: a Book form without genre was answered with a redirect to the Book
\* it inserted
C9_Witness ==
  /\ resp.h = "book_create_post"
  /\ C9_Given(resp.raw)
  /\ resp.prev = "none"
  /\ books # <<>>
  /\ books[Len(books)].genre = Arr(<<>>)
  /\ RedirectsTo(resp, "/catalog/book/", books[Len(books)]._id)

UpdateOf ==
  [author_update_post |-> "authors", book_update_post |-> "books",
   bookinstance_update_post |-> "bookinstances"]

C11_DeleteRan(id) ==
  IF IsObjectId(id)
  THEN /\ bookinstances' = SelectSeq(bookinstances, LAMBDA d : d._id # id[1])
       /\ resp'.calls[Len(resp'.calls)] = Redirect(ListUrl("/catalog/bookinstances"))
  ELSE /\ UNCHANGED bookinstances
       /\ resp'.calls[Len(resp'.calls)] = NextErr(0, "CastError")

\* C11: every run of bookinstance_delete_post calls the delete-by-id with the
\* submitted (trimmed) bookinstanceid, whatever the path identifier and with
\* no look at other documents; when the rule on bookinstanceid failed, the
\* handler first redirects to /catalog/bookinstances and the delete call
\* still runs after that redirect.
C11_DeleteAnyway ==
  [][Answers("bookinstance_delete_post") =>
       /\ UNCHANGED <<authors, books>>
       /\ C11_DeleteRan(resp'.body.bookinstanceid.s)
       /\ IF resp'.errors # {}
          THEN /\ Len(resp'.calls) = 2
               /\ resp'.calls[1] = Redirect(ListUrl("/catalog/bookinstances"))
          ELSE Len(resp'.calls) = 1]_vars

\* C11: a delete form whose bookinstanceid failed its rule was answered with
\* the redirect and then the outcome of the delete call
C11_Witness ==
  /\ resp.h = "bookinstance_delete_post"
  /\ resp.errors = {"bookinstanceid"}
  /\ resp.calls = <<Redirect(ListUrl("/catalog/bookinstances")),
                    NextErr(0, "CastError")>>

\* C12 as stated: every stored BookInstance has a status among Available,
\* Maintenance, Loaned and Reserved, after any sequence of create and update
\* requests; a submitted status outside the set is never stored.
C12_StatusInEnum ==
  \A i \in DOMAIN bookinstances :
    /\ bookinstances[i].status.t = "string"
    /\ bookinstances[i].status.s \in StatusEnum

Optional == {"date_of_birth", "date_of_death", "due_back"}
\* the document a full overwrite by the candidate doc of the form raw leaves:
\* the candidate's fields, an optional field the form left out being absent
Overwritten(doc, raw) ==
  [f \in DOMAIN doc \ {"invalid"} |->
     IF f \in Optional /\ f \notin DOMAIN raw THEN Undefined ELSE doc[f]]

C13_Replaced(old, new, id, doc, raw) ==
  /\ Len(new) = Len(old)
  /\ \A i \in DOMAIN old :
       new[i] = IF old[i]._id = id THEN Overwritten(doc, raw) ELSE old[i]

\* C13 as stated: after an update of Author, Book or BookInstance that passed
\* the rules, for a stored identifier, the document with that identifier
\* holds exactly the submitted fields as normalized, an optional field
\* (date_of_birth, date_of_death, due_back) left out of the form being absent
\* and not keeping its old value; every other document and the number of
\* documents of each entity are unchanged.
C13_FullOverwrite ==
  [][\A h \in DOMAIN UpdateOf :
       /\ Answers(h)
       /\ resp'.errors = {}
       /\ resp'.pid \in Ids(Stored(UpdateOf[h]))
       => /\ h = "author_update_post" =>
               /\ C13_Replaced(authors, authors', resp'.pid, resp'.doc, resp'.raw)
               /\ UNCHANGED <<books, bookinstances>>
          /\ h = "book_update_post" =>
               /\ C13_Replaced(books, books', resp'.pid, resp'.doc, resp'.raw)
               /\ UNCHANGED <<authors, bookinstances>>
          /\ h = "bookinstance_update_post" =>
               /\ C13_Replaced(bookinstances, bookinstances', resp'.pid,
                               resp'.doc, resp'.raw)
               /\ UNCHANGED <<authors, books>>]_vars

\* C14 as stated: every handler run issues exactly one terminal response, a
\* render, a redirect or an error passed to the boundary, and never a second
\* one; also the confirm-delete pages of a missing document and
\* bookinstance_delete_post after a failed rule.
C14_OneResponse == resp.h # "none" => Len(resp.calls) = 1

====
